---- MODULE Spec2Model ----
(***************************************************************************)
(* Model of nwgraph/util/parallel_for.hpp: the element-shape adaptation    *)
(* (parallel_for_inner), the sequential loops (parallel_for_sequential),   *)
(* and the routers parallel_for / parallel_reduce under the three build    *)
(* configurations (NWGRAPH_HAVE_TBB, NWGRAPH_HAVE_HPX, neither).           *)
(*                                                                         *)
(* The user operator `op` and the reducer `reduce` are test doubles: every *)
(* invocation of op is recorded in `log` with the arguments it received.   *)
(***************************************************************************)
EXTENDS Integers, Sequences, FiniteSets

VARIABLES
  config,     \* build configuration: "TBB", "HPX" or "NONE"
  range,      \* the range: the sequence of values *i yields, in traversal order
  divisible,  \* what range.is_divisible() reports
  rk,         \* which reducer the caller passes
  init,       \* the init value the caller passes
  fault,      \* which callable throws, and on which element
  call,       \* the entry point the caller calls: "inner", "for", "reduce"
  elem,       \* the argument i of a direct parallel_for_inner(op, i) call
  pc,         \* "idle", "par" (inside the backend), "returned", "thrown"
  path,       \* the path the router took: "none", "sequential", "parallel"
  log,        \* op's invocations so far: [idx, args]
  result,     \* the value returned to the caller: [has, val]
  segs,       \* the backend's sub-ranges, in range order
  seeds,      \* the calls of the TBB body lambda: [lo, hi, partial, seed, ...]
  exc,        \* an exception is pending inside the backend
  splits      \* how many times the backend has split a sub-range

vars == <<config, range, divisible, rk, init, fault, call, elem, pc, path,
          log, result, segs, seeds, exc, splits>>

inputs == <<call, elem, config, range, divisible, rk, init, fault>>

(***************************************************************************)
(* Bounds.                                                                 *)
(***************************************************************************)
\* longest range whose contents are enumerated exhaustively
MaxLen == 3
\* most sub-ranges a backend splits one range into
MaxSubranges == 3

\* the element-count threshold of the HPX reduction
HpxThreshold == 128

(***************************************************************************)
(* Elements.  An element is an integral scalar or a tuple of integral      *)
(* scalars behind `ind` levels of indirection (iterator, pointer).         *)
(***************************************************************************)
Int_(n) == [kind |-> "int", v |-> n, f |-> <<>>, ind |-> 0]

Tup(fs) == [kind |-> "tuple", v |-> 0, f |-> fs, ind |-> 0]

\* an iterator or pointer whose operator* yields e
Ref(e) == [e EXCEPT !.ind = @ + 1]

\* *i
Deref(i) == [i EXCEPT !.ind = @ - 1]

is_tuple_v(i) == i.ind = 0 /\ i.kind = "tuple"

is_integral_v(i) == i.ind = 0 /\ i.kind = "int"

\* std::apply: the tuple's fields, in declared order, as positional arguments
Apply(t) == [k \in 1..Len(t.f) |-> Int_(t.f[k])]

(***************************************************************************)
(* The caller's callables.  op is the identity on a single scalar and      *)
(* twice the last argument on several scalars (the spec's op(i, w) = 2w);  *)
(* handed anything else it returns -1.                                     *)
(***************************************************************************)
op(args) ==
  IF \A k \in 1..Len(args) : is_integral_v(args[k])
  THEN IF Len(args) = 1 THEN args[1].v
       ELSE IF Len(args) = 0 THEN 0 ELSE 2 * args[Len(args)].v
  ELSE 0 - 1

ReduceKinds == {"add", "first", "sub"}

\* add: associative and commutative; first: associative, not commutative
\* (the first non-zero operand); sub: neither
ReduceWith(k, a, b) ==
  CASE k = "add" -> a + b
    [] k = "first" -> IF a = 0 THEN b ELSE a
    [] OTHER -> a - b

reduce(a, b) == ReduceWith(rk, a, b)

NoFault == [who |-> "none", at |-> 0]

\* op throws when invoked for the element at position k
OpThrows(k) == fault.who = "op" /\ fault.at = k

\* reduce throws when folding in the element at position k
ReduceThrows(k) == fault.who = "reduce" /\ fault.at = k

(***************************************************************************)
(* parallel_for_inner(op, i): the invocation of op it performs.            *)
(***************************************************************************)
\* a variant that hands op a tuple whole instead of unpacking it
parallel_for_inner_whole_tuple(i) ==
  IF is_tuple_v(i) \/ is_integral_v(i)
  THEN [args |-> <<i>>, ret |-> op(<<i>>)]
  ELSE [args |-> <<Deref(i)>>, ret |-> op(<<Deref(i)>>)]

\* a variant that hands op the indirect reference without dereferencing it
parallel_for_inner_no_deref(i) ==
  IF is_tuple_v(i)
  THEN [args |-> Apply(i), ret |-> op(Apply(i))]
  ELSE [args |-> <<i>>, ret |-> op(<<i>>)]

RECURSIVE parallel_for_inner(_)
parallel_for_inner(i) ==
  IF is_tuple_v(i)
  THEN [args |-> Apply(i), ret |-> op(Apply(i))]
  ELSE IF is_integral_v(i)
  THEN [args |-> <<i>>, ret |-> op(<<i>>)]
  ELSE IF is_tuple_v(Deref(i))
  THEN parallel_for_inner(Deref(i))
  ELSE [args |-> <<Deref(i)>>, ret |-> op(<<Deref(i)>>)]

\* range.begin() + (k - 1): the iterator at position k
It(k) == Ref(range[k])

(***************************************************************************)
(* parallel_for_sequential(range, op) over positions lo..hi.               *)
(***************************************************************************)
\* one iteration: parallel_for_inner(op, i); an exception leaves the loop
ForStep(i, s) ==
  [st |-> IF OpThrows(i) THEN "thrown" ELSE "ok",
   log |-> Append(s.log, [idx |-> i, args |-> parallel_for_inner(It(i)).args])]

RECURSIVE ForLoop(_, _, _)
ForLoop(i, e, s) ==
  IF s.st # "ok" \/ i > e THEN s ELSE ForLoop(i + 1, e, ForStep(i, s))

parallel_for_sequential(lo, hi) == ForLoop(lo, hi, [st |-> "ok", log |-> <<>>])

(***************************************************************************)
(* parallel_for_sequential(range, op, reduce, init) over positions lo..hi. *)
(***************************************************************************)
\* one iteration: init = reduce(init, parallel_for_inner(op, i)); an
\* exception from op or from reduce leaves the loop before the assignment
ReduceStep(i, s) ==
  LET inv == parallel_for_inner(It(i))
      thrown == OpThrows(i) \/ ReduceThrows(i)
  IN [st |-> IF thrown THEN "thrown" ELSE "ok",
      acc |-> IF thrown THEN s.acc ELSE reduce(s.acc, inv.ret),
      log |-> Append(s.log, [idx |-> i, args |-> inv.args])]

\* a variant that swallows the exception and goes on with the next element
RECURSIVE ReduceLoop_swallow(_, _, _)
ReduceLoop_swallow(i, e, s) ==
  IF s.acc \in Int /\ i > e THEN s
  ELSE ReduceLoop_swallow(i + 1, e, [ReduceStep(i, s) EXCEPT !.st = "ok"])

RECURSIVE ReduceLoop(_, _, _)
ReduceLoop(i, e, s) ==
  IF s.st # "ok" \/ i > e THEN s ELSE ReduceLoop(i + 1, e, ReduceStep(i, s))

parallel_for_sequential_reduce(lo, hi, init_) ==
  LET r == ReduceLoop(lo, hi, [st |-> "ok", acc |-> init_, log |-> <<>>])
  IN [st |-> r.st, acc |-> r.acc, log |-> r.log, seed |-> init_]

(***************************************************************************)
(* The backends' per-sub-range callables.                                  *)
(***************************************************************************)
\* tbb::parallel_for's body: [&](auto&& sub) { parallel_for_sequential(sub, op); }
TbbForLambda(lo, hi) == parallel_for_sequential(lo, hi)

\* hpx::ranges::for_each(par, range, op): op is applied to *it itself
HpxForEachStep(i, s) ==
  [st |-> IF OpThrows(i) THEN "thrown" ELSE "ok",
   log |-> Append(s.log, [idx |-> i, args |-> <<range[i]>>])]

RECURSIVE HpxForEachLoop(_, _, _)
HpxForEachLoop(i, e, s) ==
  IF s.st # "ok" \/ i > e THEN s ELSE HpxForEachLoop(i + 1, e, HpxForEachStep(i, s))

hpx_for_each(lo, hi) == HpxForEachLoop(lo, hi, [st |-> "ok", log |-> <<>>])

\* a variant that restarts every sub-range at init, dropping the partial
TbbReduceLambda_reseed(lo, hi, partial) == parallel_for_sequential_reduce(lo, hi, init)

\* tbb::parallel_reduce's body:
\* [&](auto&& sub, auto partial) { return parallel_for_sequential(sub, op, reduce, partial); }
TbbReduceLambda(lo, hi, partial) == parallel_for_sequential_reduce(lo, hi, partial)

\* the identity argument handed to tbb::parallel_reduce
TbbIdentity == init

\* a variant that joins the two bodies in the wrong order
TbbJoinValue_swapped(left, right) == reduce(right, left)

\* tbb::parallel_reduce's join: reduce(left, right)
TbbJoinValue(left, right) == reduce(left, right)

\* &elem
AddressOf(e) == Ref(e)

\* hpx::ranges::transform_reduce's conversion: parallel_for_inner(op, &elem)
HpxConvLambda(e) == parallel_for_inner(AddressOf(e))

\* one chunk of transform_reduce: the chunk's converted elements folded
\* left to right, starting from the first converted element
HpxChunkStep(i, s) ==
  LET inv == HpxConvLambda(range[i])
      thrown == OpThrows(i) \/ ReduceThrows(i)
  IN [st |-> IF thrown THEN "thrown" ELSE "ok",
      acc |-> IF thrown THEN s.acc ELSE reduce(s.acc, inv.ret),
      log |-> Append(s.log, [idx |-> i, args |-> inv.args])]

RECURSIVE HpxChunkLoop(_, _, _)
HpxChunkLoop(i, e, s) ==
  IF s.st # "ok" \/ i > e THEN s ELSE HpxChunkLoop(i + 1, e, HpxChunkStep(i, s))

hpx_transform_reduce_chunk(lo, hi) ==
  LET inv == HpxConvLambda(range[lo])
  IN HpxChunkLoop(lo + 1, hi,
                  [st |-> IF OpThrows(lo) THEN "thrown" ELSE "ok",
                   acc |-> inv.ret,
                   log |-> <<[idx |-> lo, args |-> inv.args]>>])

\* transform_reduce's final step: init and the chunk results, left to right
RECURSIVE HpxFinalFold(_, _)
HpxFinalFold(k, acc) ==
  IF k > Len(segs) THEN acc ELSE HpxFinalFold(k + 1, reduce(acc, segs[k].val))

(***************************************************************************)
(* Inputs.                                                                 *)
(***************************************************************************)
Configs == {"TBB", "HPX", "NONE"}

IntElems == {Int_(1), Int_(2)}

TupElems == {Tup(<<1, 2>>)}

PtrElems == {Ref(Int_(7))}

\* the spec's scenario ranges [0, 1, 2, 3, 4, 5] and [(0, 1), (1, 2)]
ExampleRange == [k \in 1..6 |-> Int_(k - 1)]

ExamplePairs == <<Tup(<<0, 1>>), Tup(<<1, 2>>)>>

\* a range just over, and one exactly at, the HPX threshold
OverThreshold == [k \in 1..(HpxThreshold + 1) |-> Int_(IF k % 2 = 0 THEN 7 ELSE 1)]

AtThreshold == [k \in 1..HpxThreshold |-> Int_(IF k % 2 = 0 THEN 7 ELSE 1)]

Ranges ==
  UNION {[1..n -> IntElems] \cup [1..n -> TupElems] \cup [1..n -> PtrElems] :
         n \in 0..MaxLen}
  \cup {ExampleRange, ExamplePairs, OverThreshold, AtThreshold}

InitVals == {0, 1}

\* the positions a fault is injected at
FaultAt(n) == IF n <= MaxLen THEN 1..n ELSE {2}

\* what is_divisible() may report for a range of n elements
Divisibility(n) == {d \in BOOLEAN : d => n >= 2}

\* the arguments of a direct parallel_for_inner call
InnerElems ==
  LET base == {Int_(1), Int_(7), Tup(<<0, 1>>), Tup(<<3, 4, 5>>), Tup(<<9>>)}
  IN base \cup {Ref(b) : b \in base} \cup {Ref(Ref(b)) : b \in base}

Input(c, cf, r, d, k, i, f, e) ==
  [call |-> c, config |-> cf, range |-> r, divisible |-> d, rk |-> k,
   init |-> i, fault |-> f, elem |-> e]

\* direct calls of parallel_for_inner
InnerInputs ==
  {Input("inner", "NONE", <<>>, FALSE, "add", 0, NoFault, e) : e \in InnerElems}

\* calls of parallel_for: op may throw at one element
ForInputs ==
  UNION {UNION {{Input("for", cf, r, d, "add", 0, f, Int_(0)) :
                   cf \in Configs,
                   f \in {NoFault} \cup [who : {"op"}, at : FaultAt(Len(r))]} :
                d \in Divisibility(Len(r))} :
         r \in Ranges}

\* calls of parallel_reduce: every reducer and init without a fault, and a
\* throwing op or reduce with reduce = add, init = 0
ReduceInputs ==
  UNION {UNION {{Input("reduce", cf, r, d, k, i, NoFault, Int_(0)) :
                   cf \in Configs, k \in ReduceKinds, i \in InitVals}
                \cup
                {Input("reduce", cf, r, d, "add", 0, f, Int_(0)) :
                   cf \in Configs,
                   f \in [who : {"op", "reduce"}, at : FaultAt(Len(r))]} :
                d \in Divisibility(Len(r))} :
         r \in Ranges}

Inputs == InnerInputs \cup ForInputs \cup ReduceInputs

\* the sizes the backend may give the left part when it splits n elements
Cuts(n) == IF n <= MaxLen THEN 1..(n - 1) ELSE {n \div 2}

NoResult == [has |-> FALSE, val |-> 0]

Value(x) == [has |-> TRUE, val |-> x]

Seg(lo, hi, st, val, joined) ==
  [lo |-> lo, hi |-> hi, st |-> st, val |-> val, joined |-> joined]

Init ==
  /\ \E in \in Inputs :
       /\ call = in.call
       /\ config = in.config
       /\ range = in.range
       /\ divisible = in.divisible
       /\ rk = in.rk
       /\ init = in.init
       /\ fault = in.fault
       /\ elem = in.elem
  /\ pc = "idle"
  /\ path = "none"
  /\ log = <<>>
  /\ result = NoResult
  /\ segs = <<>>
  /\ seeds = <<>>
  /\ exc = FALSE
  /\ splits = 0

(***************************************************************************)
(* Entry points.                                                           *)
(***************************************************************************)
\* a direct call parallel_for_inner(op, elem)
CallInner ==
  /\ pc = "idle" /\ call = "inner"
  /\ log' = <<[idx |-> 0, args |-> parallel_for_inner(elem).args]>>
  /\ result' = Value(parallel_for_inner(elem).ret)
  /\ pc' = "returned"
  /\ UNCHANGED <<inputs, splits, path, segs, seeds, exc>>

\* parallel_for(range, op)
CallParallelFor ==
  /\ pc = "idle" /\ call = "for"
  /\ IF divisible
     THEN IF config \in {"TBB", "HPX"}
          THEN \* the range is handed to the backend
               /\ pc' = "par"
               /\ path' = "parallel"
               /\ segs' = <<Seg(1, Len(range), "todo", 0, FALSE)>>
               /\ log' = log
          ELSE \* neither #if branch is compiled: the block is empty
               /\ pc' = "returned"
               /\ path' = "none"
               /\ UNCHANGED <<segs, log>>
     ELSE LET r == parallel_for_sequential(1, Len(range))
          IN /\ log' = r.log
             /\ pc' = IF r.st = "ok" THEN "returned" ELSE "thrown"
             /\ path' = "sequential"
             /\ segs' = segs
  /\ UNCHANGED <<inputs, splits, result, seeds, exc>>

\* the sequential branch of parallel_reduce
ReduceSequentially ==
  LET r == parallel_for_sequential_reduce(1, Len(range), init)
  IN /\ log' = r.log
     /\ pc' = IF r.st = "ok" THEN "returned" ELSE "thrown"
     /\ result' = IF r.st = "ok" THEN Value(r.acc) ELSE NoResult
     /\ path' = "sequential"
     /\ segs' = segs

\* the backend branch of parallel_reduce
ReduceInBackend ==
  /\ pc' = "par"
  /\ path' = "parallel"
  /\ segs' = <<Seg(1, Len(range), "todo", 0, FALSE)>>
  /\ UNCHANGED <<log, result>>

\* parallel_reduce(range, op, reduce, init)
CallParallelReduce ==
  /\ pc = "idle" /\ call = "reduce"
  /\ CASE config = "TBB" ->
            IF divisible THEN ReduceInBackend ELSE ReduceSequentially
       [] config = "HPX" ->
            IF Len(range) > HpxThreshold THEN ReduceInBackend ELSE ReduceSequentially
       [] OTHER -> \* no branch is compiled: the function body is empty
            /\ pc' = "returned"
            /\ path' = "none"
            /\ UNCHANGED <<log, result, segs>>
  /\ UNCHANGED <<inputs, splits, seeds, exc>>

(***************************************************************************)
(* Inside the backend.                                                     *)
(***************************************************************************)
\* s with its k-th entry replaced by the entries of r
Splice(s, k, r) == SubSeq(s, 1, k - 1) \o r \o SubSeq(s, k + 1, Len(s))

Finished(r) == IF r.st = "ok" THEN "done" ELSE "failed"

\* the backend splits a sub-range nobody has started into two
BackendSplit(k, n) ==
  /\ pc = "par"
  /\ splits + 1 < MaxSubranges
  /\ splits' = splits + 1
  /\ segs[k].st = "todo"
  /\ n \in Cuts(segs[k].hi - segs[k].lo + 1)
  /\ segs' = Splice(segs, k,
                    <<Seg(segs[k].lo, segs[k].lo + n - 1, "todo", 0, FALSE),
                      Seg(segs[k].lo + n, segs[k].hi, "todo", 0, FALSE)>>)
  /\ UNCHANGED <<inputs, pc, path, log, result, seeds, exc>>

\* tbb::parallel_for runs its body on sub-range k
TbbForBody(k) ==
  /\ pc = "par" /\ call = "for" /\ config = "TBB"
  /\ segs[k].st = "todo"
  /\ LET r == TbbForLambda(segs[k].lo, segs[k].hi)
     IN /\ log' = log \o r.log
        /\ segs' = [segs EXCEPT ![k].st = Finished(r)]
        /\ exc' = (exc \/ r.st # "ok")
  /\ UNCHANGED <<inputs, splits, pc, path, result, seeds>>

\* hpx::ranges::for_each runs over chunk k
HpxForEachChunk(k) ==
  /\ pc = "par" /\ call = "for" /\ config = "HPX"
  /\ segs[k].st = "todo"
  /\ LET r == hpx_for_each(segs[k].lo, segs[k].hi)
     IN /\ log' = log \o r.log
        /\ segs' = [segs EXCEPT ![k].st = Finished(r)]
        /\ exc' = (exc \/ r.st # "ok")
  /\ UNCHANGED <<inputs, splits, pc, path, result, seeds>>

\* the backend's parallel loop returns once every sub-range is done
BackendForReturn ==
  /\ pc = "par" /\ call = "for"
  /\ \A k \in 1..Len(segs) : segs[k].st = "done"
  /\ pc' = "returned"
  /\ UNCHANGED <<inputs, splits, path, log, result, segs, seeds, exc>>

\* tbb::parallel_reduce runs a fresh body (its value is the identity) on
\* sub-range k
TbbReduceBodyFresh(k) ==
  /\ pc = "par" /\ call = "reduce" /\ config = "TBB"
  /\ segs[k].st = "todo"
  /\ LET r == TbbReduceLambda(segs[k].lo, segs[k].hi, TbbIdentity)
     IN /\ log' = log \o r.log
        /\ segs' = [segs EXCEPT ![k].st = Finished(r), ![k].val = r.acc]
        /\ exc' = (exc \/ r.st # "ok")
        /\ seeds' = Append(seeds, [lo |-> segs[k].lo, hi |-> segs[k].hi,
                                   partial |-> TbbIdentity, seed |-> r.seed,
                                   fresh |-> TRUE, blo |-> segs[k].lo,
                                   pure |-> TRUE])
  /\ UNCHANGED <<inputs, splits, pc, path, result>>

\* the body that finished sub-range k goes on to sub-range k + 1 (the task
\* was not stolen): TBB hands the lambda the body's running value
TbbReduceBodyContinue(k) ==
  /\ pc = "par" /\ call = "reduce" /\ config = "TBB"
  /\ k < Len(segs)
  /\ segs[k].st = "done" /\ segs[k + 1].st = "todo"
  /\ LET r == TbbReduceLambda(segs[k + 1].lo, segs[k + 1].hi, segs[k].val)
     IN /\ log' = log \o r.log
        /\ segs' = SubSeq(segs, 1, k - 1)
                    \o <<Seg(segs[k].lo, segs[k + 1].hi, Finished(r),
                             r.acc, segs[k].joined)>>
                    \o SubSeq(segs, k + 2, Len(segs))
        /\ exc' = (exc \/ r.st # "ok")
        /\ seeds' = Append(seeds, [lo |-> segs[k + 1].lo, hi |-> segs[k + 1].hi,
                                   partial |-> segs[k].val, seed |-> r.seed,
                                   fresh |-> FALSE, blo |-> segs[k].lo,
                                   pure |-> ~segs[k].joined])
  /\ UNCHANGED <<inputs, splits, pc, path, result>>

\* tbb::parallel_reduce joins two adjacent finished bodies
TbbJoin(k) ==
  /\ pc = "par" /\ call = "reduce" /\ config = "TBB"
  /\ k < Len(segs)
  /\ segs[k].st = "done" /\ segs[k + 1].st = "done"
  /\ segs' = SubSeq(segs, 1, k - 1)
             \o <<Seg(segs[k].lo, segs[k + 1].hi, "done",
                      TbbJoinValue(segs[k].val, segs[k + 1].val), TRUE)>>
             \o SubSeq(segs, k + 2, Len(segs))
  /\ UNCHANGED <<inputs, splits, pc, path, log, result, seeds, exc>>

\* tbb::parallel_reduce returns the root body's value
TbbReduceReturn ==
  /\ pc = "par" /\ call = "reduce" /\ config = "TBB"
  /\ Len(segs) = 1 /\ segs[1].st = "done"
  /\ result' = Value(segs[1].val)
  /\ pc' = "returned"
  /\ UNCHANGED <<inputs, splits, path, log, segs, seeds, exc>>

\* hpx transform_reduce reduces chunk k
HpxReduceChunk(k) ==
  /\ pc = "par" /\ call = "reduce" /\ config = "HPX"
  /\ segs[k].st = "todo"
  /\ LET r == hpx_transform_reduce_chunk(segs[k].lo, segs[k].hi)
     IN /\ log' = log \o r.log
        /\ segs' = [segs EXCEPT ![k].st = Finished(r), ![k].val = r.acc]
        /\ exc' = (exc \/ r.st # "ok")
  /\ UNCHANGED <<inputs, splits, pc, path, result, seeds>>

\* hpx transform_reduce returns init folded with the chunk results
HpxReduceReturn ==
  /\ pc = "par" /\ call = "reduce" /\ config = "HPX"
  /\ \A k \in 1..Len(segs) : segs[k].st = "done"
  /\ result' = Value(HpxFinalFold(1, init))
  /\ pc' = "returned"
  /\ UNCHANGED <<inputs, splits, path, log, segs, seeds, exc>>

\* the backend rethrows a sub-range's exception to the caller
BackendRethrow ==
  /\ pc = "par" /\ exc
  /\ pc' = "thrown"
  /\ result' = NoResult
  /\ UNCHANGED <<inputs, splits, path, log, segs, seeds, exc>>

Next ==
  \/ CallInner
  \/ CallParallelFor
  \/ CallParallelReduce
  \/ \E k \in 1..Len(segs), n \in 1..Len(range) : BackendSplit(k, n)
  \/ \E k \in 1..Len(segs) : TbbForBody(k)
  \/ \E k \in 1..Len(segs) : HpxForEachChunk(k)
  \/ BackendForReturn
  \/ \E k \in 1..Len(segs) : TbbReduceBodyFresh(k)
  \/ \E k \in 1..Len(segs) : TbbReduceBodyContinue(k)
  \/ \E k \in 1..Len(segs) : TbbJoin(k)
  \/ TbbReduceReturn
  \/ \E k \in 1..Len(segs) : HpxReduceChunk(k)
  \/ HpxReduceReturn
  \/ BackendRethrow

Spec == Init /\ [][Next]_vars

(***************************************************************************)
(* What the properties below compare the program's behaviour with.         *)
(***************************************************************************)
\* the positional arguments op is to receive for the range element e: a
\* tuple's fields in declared order, anything else as the single argument
AdaptedArgs(e) ==
  IF e.ind = 0 /\ e.kind = "tuple"
  THEN [k \in 1..Len(e.f) |-> Int_(e.f[k])]
  ELSE <<e>>

\* the strict left fold reduce(...reduce(acc, op(e_lo))..., op(e_hi)); the
\* accumulator is evaluated at every step
RECURSIVE LeftFold(_, _, _)
LeftFold(lo, hi, acc) ==
  IF acc \in Int /\ lo > hi THEN acc
  ELSE LeftFold(lo + 1, hi, reduce(acc, op(AdaptedArgs(range[lo]))))

\* lg is one invocation per position lo..hi, in traversal order, with the
\* adapted arguments
InOrder(lg, lo, hi) ==
  /\ Len(lg) = hi - lo + 1
  /\ \A k \in 1..Len(lg) :
       /\ lg[k].idx = lo + k - 1
       /\ lg[k].args = AdaptedArgs(range[lg[k].idx])

\* lg holds exactly one invocation per position of the range, in any order,
\* each with the adapted arguments
OncePerElement(lg) ==
  /\ Len(lg) = Len(range)
  /\ \A i \in 1..Len(range) : \E k \in 1..Len(lg) : lg[k].idx = i
  /\ \A k \in 1..Len(lg) : lg[k].args = AdaptedArgs(range[lg[k].idx])

Samples == (0 - 2)..2

Associative(k) ==
  \A a, b, c \in Samples :
    ReduceWith(k, ReduceWith(k, a, b), c) = ReduceWith(k, a, ReduceWith(k, b, c))

IdentityOf(k, z) ==
  \A a \in Samples : ReduceWith(k, z, a) = a /\ ReduceWith(k, a, z) = a

(***************************************************************************)
(* C1: for a range whose is_divisible() is false, in every configuration,  *)
(* parallel_for invokes op once per element in traversal order and         *)
(* parallel_reduce returns the strict left fold from init.                 *)
(***************************************************************************)
C1_NonDivisibleIsPlainTraversal ==
  (pc = "returned" /\ ~divisible /\ call \in {"for", "reduce"}) =>
    /\ call = "for" => InOrder(log, 1, Len(range))
    /\ call = "reduce" => result = Value(LeftFold(1, Len(range), init))

(***************************************************************************)
(* C2: with an associative reduce and an init that is its identity,        *)
(* parallel_reduce over a divisible range returns the sequential left fold *)
(* whatever the backend's partition, task assignment and merge order.      *)
(***************************************************************************)
C2_ReductionIdentityLaw ==
  (/\ pc = "returned" /\ call = "reduce" /\ divisible /\ config # "NONE"
   /\ Associative(rk) /\ IdentityOf(rk, init)) =>
    result = Value(LeftFold(1, Len(range), init))

\* [0..5] split into [0,1,2] and [3,4,5], each reduced by a body of its
\* own, merged to 15
C2_Witness ==
  /\ pc = "returned" /\ call = "reduce" /\ config = "TBB" /\ divisible
  /\ range = ExampleRange /\ rk = "add" /\ init = 0
  /\ \E i, j \in 1..Len(seeds) :
       /\ seeds[i].lo = 1 /\ seeds[i].hi = 3 /\ seeds[i].fresh
       /\ seeds[j].lo = 4 /\ seeds[j].hi = 6 /\ seeds[j].fresh
  /\ result = Value(15)

(***************************************************************************)
(* C3: on a divisible range with a backend configured (TBB or HPX),        *)
(* parallel_for invokes op exactly once per element with the adapted       *)
(* arguments (tuple fields unpacked) of the sequential path.               *)
(***************************************************************************)
C3_ParallelForAdaptsEveryElement ==
  (pc = "returned" /\ call = "for" /\ divisible /\ config \in {"TBB", "HPX"}) =>
    OncePerElement(log)

(***************************************************************************)
(* C4: parallel_reduce takes the parallel path if and only if              *)
(* is_divisible() is true and the sequential path otherwise, in every      *)
(* configuration; the element count plays no part.                         *)
(***************************************************************************)
C4_PathFromDivisibilityAlone ==
  (call = "reduce" /\ pc # "idle") =>
    /\ divisible => path = "parallel"
    /\ ~divisible => path = "sequential"

(***************************************************************************)
(* C5: parallel_for_inner on a tuple of arity N (direct, or behind one     *)
(* dereference) invokes op once with the N fields in declared order; on an *)
(* integral element it invokes op with the element itself; and it returns  *)
(* what op returns.                                                        *)
(***************************************************************************)
C5_InnerTupleThenIntegral ==
  (pc = "returned" /\ call = "inner") =>
    /\ Len(log) = 1
    /\ (elem.kind = "tuple" /\ elem.ind <= 1) =>
         /\ Len(log[1].args) = Len(elem.f)
         /\ \A k \in 1..Len(elem.f) : log[1].args[k] = Int_(elem.f[k])
    /\ (elem.kind = "int" /\ elem.ind = 0) => log[1].args = <<elem>>
    /\ result = Value(op(log[1].args))

C5_Witness ==
  /\ pc = "returned" /\ call = "inner"
  /\ elem = Tup(<<3, 4, 5>>)
  /\ log[1].args = <<Int_(3), Int_(4), Int_(5)>>
  /\ result = Value(10)

(***************************************************************************)
(* C6: with no backend configured and is_divisible() true, parallel_for    *)
(* and parallel_reduce never return normally having skipped the elements   *)
(* or without a reduction result.                                          *)
(***************************************************************************)
C6_NoBackendNeverSkips ==
  (pc = "returned" /\ config = "NONE" /\ divisible /\ call \in {"for", "reduce"}) =>
    /\ OncePerElement(log)
    /\ call = "reduce" => result.has

(***************************************************************************)
(* C7: an error raised by op or reduce at an element of a sequential       *)
(* traversal reaches the caller: the call ends thrown, op is not invoked   *)
(* on any later element, and no accumulator is returned; inside a backend  *)
(* the failed sub-range leaves the exception pending and the call never    *)
(* returns normally.                                                       *)
(***************************************************************************)
C7_SequentialErrorPropagates ==
  /\ path = "sequential" =>
       /\ pc \in {"returned", "thrown"}
       /\ (pc = "thrown") = (fault # NoFault)
       /\ pc = "thrown" =>
            /\ ~result.has
            /\ InOrder(log, 1, fault.at)
  /\ \A k \in 1..Len(segs) : segs[k].st = "failed" => exc
  /\ exc => pc # "returned" /\ ~result.has

C7_Witness ==
  /\ path = "sequential" /\ pc = "thrown" /\ call = "reduce"
  /\ fault = [who |-> "reduce", at |-> 2] /\ Len(range) = 3
  /\ Len(log) = 2 /\ ~result.has

C10_InnerRecursOnDereferenced ==
  (pc = "returned" /\ call = "inner" /\ ~is_tuple_v(elem) /\ ~is_integral_v(elem)) =>
    /\ log[1].args = parallel_for_inner(Deref(elem)).args
    /\ result = Value(parallel_for_inner(Deref(elem)).ret)

====
